---- MODULE Spec2Model ----
(***************************************************************************)
(* SimplePDWorld: a spatial Prisoner's Dilemma population on a torus.      *)
(*                                                                         *)
(* Numbers.  Coordinates and the radius r are counted in grid steps of     *)
(* 1/Grid, so the torus width 1.0 is Grid.  Fitness values are fixed-point *)
(* numbers with Unit subdivisions of 1.0, Unit being a common multiple of  *)
(* every possible neighbor count, so that the division of use_ave is       *)
(* exact.  A real draw from [0, max) is modelled by its integer part in    *)
(* fitness subdivisions, which decides every comparison the code makes     *)
(* with it.  0.0/0.0 is the value NaN, for which every comparison is false.*)
(***************************************************************************)
EXTENDS Integers, Sequences, FiniteSets, TLC

\* ---------------------------------------------------------------- bounds
MaxN == 3
Grid == 3
MaxR == 2
MaxU == 1
MaxE == 2
MaxSteps == 2
MaxEpoch == 3
\* runs in the queue at a time
MaxQueue == 2
\* AddRun calls in a behaviour
MaxAdds == 3
\* AddDepVariable calls in a behaviour
MaxHeaders == 2
\* INT_MAX, the largest value of an int
MaxInt == 3
\* Queue clicks where the other controls are used as well
MaxClicks == 1
\* Setup calls counted for a queued run
MaxSetups == 2

\* (size_t)-1, the default argument of Run, at the width of the model's integers
SIZE_MAX == 2147483647

NaN == -1

VARIABLES
    r, u, N, E, use_ave,      \* parameters
    epoch,                    \* current epoch
    r_sqr,                    \* r squared
    pop,                      \* [0 .. size-1 -> Org]
    payoff_CC, payoff_CD, payoff_DC, payoff_DD,
    pc,                       \* "idle", or "run" inside Run
    end_epoch,                \* local of Run, 0 outside of it
    o,                        \* loop counter of Run's inner loop
    call,                     \* the Run call in progress or last returned
    last,                     \* locals of the Repro call that returned last
    op,                       \* the member function called last
    built,                    \* N and E as the last Setup call received them
    os,                       \* what PrintNeighborInfo wrote last
    ndebug,                   \* the build defines NDEBUG: emp_assert compiled out
    version,                  \* which of the QueueManager classes is built
    runs,                     \* QueueManager::runs, front first
    table,                    \* the rows of the result table, header first
    num_runs,                 \* SimplePDWorld::num_runs
    anim_step,                \* the global anim_step
    active,                   \* the animation is playing
    dpc,                      \* the page: "idle", inside a frame, or stopped
    fr,                       \* locals of the animation frame in progress
    qlog,                     \* AddRun and RemoveRun calls made, last results
    dbt                       \* DivButtonTable of the SettingConfig version

vars == <<r, u, N, E, use_ave, epoch, r_sqr, pop,
          payoff_CC, payoff_CD, payoff_DC, payoff_DD,
          pc, end_epoch, o, call, last, op, built, os,
          ndebug, version, runs, table, num_runs, anim_step, active, dpc, fr, qlog, dbt>>

\* the state of the page and its run queue
qvars == <<ndebug, version, runs, table, num_runs, anim_step, active, dpc, fr, qlog, dbt>>

params == <<r, u, N, E, use_ave, r_sqr>>
payoffs == <<payoff_CC, payoff_CD, payoff_DC, payoff_DD>>

\* ---------------------------------------------------------------- numbers
RECURSIVE Gcd(_, _)
Gcd(a, b) == IF b = 0 THEN a ELSE Gcd(b, a % b)

RECURSIVE LcmUpTo(_)
LcmUpTo(n) == IF n <= 1 THEN 1 ELSE (LcmUpTo(n - 1) * n) \div Gcd(LcmUpTo(n - 1), n)

\* subdivisions of 1.0 in a fitness value
Unit == LcmUpTo(MaxN - 1)

Abs(a) == IF a < 0 THEN 0 - a ELSE a

IsNaN(v) == v = NaN

\* double arithmetic and comparison, NaN-aware
FAdd(a, b) == IF IsNaN(a) \/ IsNaN(b) THEN NaN ELSE a + b
FSub(a, b) == IF IsNaN(a) \/ IsNaN(b) THEN NaN ELSE a - b
FLess(a, b) == ~IsNaN(a) /\ ~IsNaN(b) /\ a < b
\* the neighbor count taken as 0 whatever it is
FDivByZero(a, n) == NaN

FDiv(a, n) == IF n = 0 THEN NaN ELSE a \div n

Size(p) == Cardinality(DOMAIN p)

\* ---------------------------------------------------------------- Org
NewOrg == [x |-> 0, y |-> 0, coop |-> FALSE, fitness |-> 0, neighbors |-> <<>>]

\* pop.resize(n)
Resize(p, n) == [i \in 0 .. n - 1 |-> IF i \in DOMAIN p THEN p[i] ELSE NewOrg]

\* ---------------------------------------------------------------- CalcFitness
RECURSIVE CountNeighbors(_, _, _, _)
CountNeighbors(p, nbrs, k, c) ==
    IF k > Len(nbrs) THEN 0
    ELSE (IF p[nbrs[k]].coop = c THEN 1 ELSE 0) + CountNeighbors(p, nbrs, k + 1, c)

\* without "if (!org.coop) { ... }": the cooperator's row for everyone
FitnessOfCooperatorRow(p, id, pay, ave) ==
    LET org == p[id]
        C_count == CountNeighbors(p, org.neighbors, 1, TRUE)
        D_count == CountNeighbors(p, org.neighbors, 1, FALSE)
        sum == (pay.CC * C_count + pay.CD * D_count) * Unit
    IN  IF ave THEN FDiv(sum, Len(org.neighbors)) ELSE sum

FitnessOf(p, id, pay, ave) ==
    LET org == p[id]
        C_count == CountNeighbors(p, org.neighbors, 1, TRUE)
        D_count == CountNeighbors(p, org.neighbors, 1, FALSE)
        C_value == IF org.coop THEN pay.CC ELSE pay.DC
        D_value == IF org.coop THEN pay.CD ELSE pay.DD
        total_C == C_value * C_count
        total_D == D_value * D_count
        sum == (total_C + total_D) * Unit
    IN  IF ave THEN FDiv(sum, Len(org.neighbors)) ELSE sum

CalcFitness(p, id, pay, ave) == [p EXCEPT ![id].fitness = FitnessOf(p, id, pay, ave)]

\* ---------------------------------------------------------------- Setup
\* without "org.neighbors.resize(0)"
InitOrgsKeepsNeighbors(p, d) ==
    [i \in DOMAIN p |-> [p[i] EXCEPT !.x = d[i].x, !.y = d[i].y, !.coop = d[i].coop]]

\* "for (Org& org : pop) { ... }": position and strategy drawn, neighbors emptied
InitOrgs(p, d) ==
    [i \in DOMAIN p |-> [p[i] EXCEPT !.x = d[i].x, !.y = d[i].y,
                                     !.coop = d[i].coop, !.neighbors = <<>>]]

Wrap(dist) == IF dist > Grid - dist THEN Grid - dist ELSE dist

DistSqr(org1, org2) ==
    LET x_dist0 == Abs(org1.x - org2.x)
        x_dist1 == Wrap(x_dist0)
        y_dist == Abs(org1.y - org2.y)
        x_dist == Wrap(x_dist1)
    IN  x_dist * x_dist + y_dist * y_dist

\* the edge stored in org1's list only
RECURSIVE PairLoopOneSided(_, _, _, _, _)
PairLoopOneSided(p, n, rsq, i, j) ==
    IF i >= n THEN p
    ELSE IF j >= i THEN PairLoopOneSided(p, n, rsq, i + 1, 0)
    ELSE IF DistSqr(p[i], p[j]) < rsq
         THEN PairLoopOneSided([p EXCEPT ![i].neighbors = Append(@, j)], n, rsq, i, j + 1)
         ELSE PairLoopOneSided(p, n, rsq, i, j + 1)

\* org2's list filled at its front
RECURSIVE PairLoopPushFront(_, _, _, _, _)
PairLoopPushFront(p, n, rsq, i, j) ==
    IF i >= n THEN p
    ELSE IF j >= i THEN PairLoopPushFront(p, n, rsq, i + 1, 0)
    ELSE IF DistSqr(p[i], p[j]) < rsq
         THEN PairLoopPushFront([p EXCEPT ![i].neighbors = Append(@, j),
                                          ![j].neighbors = <<i>> \o @],
                                n, rsq, i, j + 1)
         ELSE PairLoopPushFront(p, n, rsq, i, j + 1)

\* the pair loop: i from 1 to n-1, j from 0 to i-1
RECURSIVE PairLoop(_, _, _, _, _)
PairLoop(p, n, rsq, i, j) ==
    IF i >= n THEN p
    ELSE IF j >= i THEN PairLoop(p, n, rsq, i + 1, 0)
    ELSE IF DistSqr(p[i], p[j]) < rsq
         THEN PairLoop([p EXCEPT ![i].neighbors = Append(@, j),
                                 ![j].neighbors = Append(@, i)], n, rsq, i, j + 1)
         ELSE PairLoop(p, n, rsq, i, j + 1)

RECURSIVE FitnessLoop(_, _, _, _, _)
FitnessLoop(p, n, pay, ave, id) ==
    IF id >= n THEN p
    ELSE FitnessLoop(CalcFitness(p, id, pay, ave), n, pay, ave, id + 1)

PayoffTable(_u) == [CC |-> 1, CD |-> 0, DC |-> 1 + _u, DD |-> _u]

SetupPop(p, _r, _u, _N, _ave, d) ==
    FitnessLoop(PairLoop(InitOrgs(Resize(p, _N), d), _N, _r * _r, 1, 0),
                _N, PayoffTable(_u), _ave, 0)

NoCall == [steps |-> 0, start |-> 0, repros |-> 0, state |-> "none"]
NoRepro == [id |-> 0, start_coop |-> FALSE, total_fitness |-> 0,
            choice |-> 0, drew |-> FALSE, winner |-> 0, calcs |-> 0, done |-> FALSE]

\* the body of Setup(_r, _u, _N, _E, _ave), its random draws taken from the set D
SetupBody(_r, _u, _N, _E, _ave, D) ==
    /\ pc = "idle"
    /\ r' = _r
    /\ u' = _u
    /\ N' = _N
    /\ E' = _E
    /\ use_ave' = _ave
    /\ epoch' = 0
    /\ r_sqr' = _r * _r
    /\ payoff_CC' = PayoffTable(_u).CC
    /\ payoff_CD' = PayoffTable(_u).CD
    /\ payoff_DC' = PayoffTable(_u).DC
    /\ payoff_DD' = PayoffTable(_u).DD
    /\ \E d \in [0 .. _N - 1 -> D] : pop' = SetupPop(pop, _r, _u, _N, _ave, d)
    /\ call' = NoCall
    /\ last' = NoRepro
    /\ built' = [N |-> _N, E |-> _E]
    /\ UNCHANGED <<pc, end_epoch, o, os>>

Setup(_r, _u, _N, _E, _ave, D) == SetupBody(_r, _u, _N, _E, _ave, D) /\ op' = "Setup"

\* "void Reset() { Setup(r, u, N, E); }": _ave takes its default, false
Reset(D) == SetupBody(r, u, N, E, FALSE, D) /\ op' = "Reset"

\* the state the constructor leaves: Setup on an empty population
Construct(_r, _u, _N, _E, _ave, D) ==
    /\ pc = "idle"
    /\ end_epoch = 0
    /\ o = 0
    /\ call = NoCall
    /\ last = NoRepro
    /\ op = "Setup"
    /\ built = [N |-> _N, E |-> _E]
    /\ os = <<>>
    /\ epoch = 0
    /\ r = _r
    /\ u = _u
    /\ N = _N
    /\ E = _E
    /\ use_ave = _ave
    /\ r_sqr = _r * _r
    /\ payoff_CC = PayoffTable(_u).CC
    /\ payoff_CD = PayoffTable(_u).CD
    /\ payoff_DC = PayoffTable(_u).DC
    /\ payoff_DD = PayoffTable(_u).DD
    /\ \E d \in [0 .. _N - 1 -> D] : pop = SetupPop(<<>>, _r, _u, _N, _ave, d)

\* ---------------------------------------------------------------- Run
\* the strict test as "<=": one epoch too many
WhileTestOrEqual(e, end) == e <= end

\* "while (epoch < end_epoch)"
WhileTest(e, end) == e < end

\* void Run(size_t steps = -1): the call, up to the first test of the while loop
Run(steps) ==
    LET clamped == IF steps > E THEN E ELSE steps
    IN  /\ pc = "idle"
        /\ epoch + clamped <= MaxEpoch
        /\ last' = NoRepro
        /\ o' = 0
        /\ IF WhileTest(epoch, epoch + clamped)
           THEN /\ pc' = "run"
                /\ end_epoch' = epoch + clamped
                /\ call' = [steps |-> steps, start |-> epoch, repros |-> 0,
                            state |-> "active"]
           ELSE /\ pc' = "idle"
                /\ end_epoch' = 0
                /\ call' = [steps |-> steps, start |-> epoch, repros |-> 0,
                            state |-> "returned"]
        /\ op' = "Run"
        /\ UNCHANGED <<params, epoch, pop, payoffs, built, os>>

\* ---------------------------------------------------------------- Repro
NoWinner == -1

RECURSIVE TotalFitness(_, _, _)
TotalFitness(p, nbrs, k) ==
    IF k > Len(nbrs) THEN 0
    ELSE FAdd(p[nbrs[k]].fitness, TotalFitness(p, nbrs, k + 1))

\* random.GetDouble(max): the integer parts of the values in [0, max)
GetDouble(max) == IF IsNaN(max) THEN {NaN} ELSE 0 .. max - 1

\* the partial sums of the neighbors' fitness, where the walk changes its answer
RECURSIVE Cuts(_, _, _, _)
Cuts(p, nbrs, k, acc) ==
    IF k > Len(nbrs) THEN {acc}
    ELSE {acc} \cup Cuts(p, nbrs, k + 1, FAdd(acc, p[nbrs[k]].fitness))

\* the draws tried: of the values GetDouble can return, the first of every stretch
\* between two cuts (the walk gives one answer on all of a stretch)
Choices(p, id) ==
    LET nbrs == p[id].neighbors
        max == FAdd(TotalFitness(p, nbrs, 1), p[id].fitness)
    IN  IF IsNaN(max) THEN GetDouble(max)
        ELSE GetDouble(max) \cap Cuts(p, nbrs, 1, 0)

\* the position in the list taken for the neighbor's index
RECURSIVE WalkByPosition(_, _, _, _)
WalkByPosition(p, nbrs, k, choice) ==
    IF k > Len(nbrs) THEN NoWinner
    ELSE IF FLess(choice, p[nbrs[k]].fitness) THEN k - 1
    ELSE WalkByPosition(p, nbrs, k + 1, FSub(choice, p[nbrs[k]].fitness))

\* the first neighbor of the list taken without the test of its fitness
WalkTakesFirst(p, nbrs, k, choice) ==
    IF k > Len(nbrs) THEN NoWinner ELSE nbrs[k]

\* "choice <= pop[n].fitness" for "choice < pop[n].fitness"
RECURSIVE WalkOrEqual(_, _, _, _)
WalkOrEqual(p, nbrs, k, choice) ==
    IF k > Len(nbrs) THEN NoWinner
    ELSE IF ~FLess(p[nbrs[k]].fitness, choice) THEN nbrs[k]
    ELSE WalkOrEqual(p, nbrs, k + 1, FSub(choice, p[nbrs[k]].fitness))

\* the walk over the neighbor list: the neighbor copied, or NoWinner
RECURSIVE Walk(_, _, _, _)
Walk(p, nbrs, k, choice) ==
    IF k > Len(nbrs) THEN NoWinner
    ELSE IF FLess(choice, p[nbrs[k]].fitness) THEN nbrs[k]
    ELSE Walk(p, nbrs, k + 1, FSub(choice, p[nbrs[k]].fitness))

\* "total_fitness >= 0" for "total_fitness > 0"
NeighborsHaveFitnessOrZero(total_fitness) == ~FLess(total_fitness, 0)

\* "if (total_fitness > 0)": the neighbors have fitness to choose by
NeighborsHaveFitness(total_fitness) == FLess(0, total_fitness)

\* no "keep" share: a draw past the neighbors' total is folded back onto them
WinnerNeverKeeps(p, id, choice) ==
    LET total_fitness == TotalFitness(p, p[id].neighbors, 1)
    IN  IF FLess(0, total_fitness)
        THEN Walk(p, p[id].neighbors, 1, choice % total_fitness)
        ELSE NoWinner

\* "if (total_fitness > 0) { ... if (choice < total_fitness) { walk } }"
Winner(p, id, choice) ==
    LET total_fitness == TotalFitness(p, p[id].neighbors, 1)
    IN  IF NeighborsHaveFitness(total_fitness) /\ FLess(choice, total_fitness)
        THEN Walk(p, p[id].neighbors, 1, choice)
        ELSE NoWinner

\* the neighbors' fitness left as it is
UpdateNeighborsSkipped(p, nbrs, k, pay, ave) == p

\* "for (size_t n : org.neighbors) CalcFitness(n);"
RECURSIVE UpdateNeighbors(_, _, _, _, _)
UpdateNeighbors(p, nbrs, k, pay, ave) ==
    IF k > Len(nbrs) THEN p
    ELSE UpdateNeighbors(CalcFitness(p, nbrs[k], pay, ave), nbrs, k + 1, pay, ave)

\* what a Repro call leaves: the population, the neighbor copied, and the number of
\* CalcFitness calls made
Recomputed(p, id, w, pay, ave) ==
    [pop |-> UpdateNeighbors(CalcFitness(p, id, pay, ave), p[id].neighbors, 1, pay, ave),
     winner |-> w, calcs |-> 1 + Len(p[id].neighbors)]

\* the winner takes the picked organism's strategy
ReproBodyReversed(p, id, choice, pay, ave) ==
    LET w == Winner(p, id, choice)
    IN  IF w = NoWinner \/ p[w].coop = p[id].coop
        THEN [pop |-> p, winner |-> w, calcs |-> 0]
        ELSE Recomputed([p EXCEPT ![w].coop = p[id].coop], w, w, pay, ave)

\* no early return: the fitness values are recomputed whatever happened
ReproBodyAlwaysRecomputes(p, id, choice, pay, ave) ==
    LET w == Winner(p, id, choice)
    IN  Recomputed(IF w = NoWinner THEN p ELSE [p EXCEPT ![id].coop = p[w].coop],
                   id, w, pay, ave)

\* "org.coop = !pop[n].coop": the strategy the winner does not have is taken
ReproBodyCopiesOpposite(p, id, choice, pay, ave) ==
    LET start_coop == p[id].coop
        w == Winner(p, id, choice)
        p1 == IF w = NoWinner THEN p ELSE [p EXCEPT ![id].coop = ~p[w].coop]
    IN  IF p1[id].coop = start_coop
        THEN [pop |-> p1, winner |-> w, calcs |-> 0]
        ELSE Recomputed(p1, id, w, pay, ave)

\* "org = pop[n]" for "org.coop = pop[n].coop": the whole winner copied
ReproBodyCopiesOrg(p, id, choice, pay, ave) ==
    LET start_coop == p[id].coop
        w == Winner(p, id, choice)
        p1 == IF w = NoWinner THEN p ELSE [p EXCEPT ![id] = p[w]]
    IN  IF p1[id].coop = start_coop
        THEN [pop |-> p1, winner |-> w, calcs |-> 0]
        ELSE Recomputed(p1, id, w, pay, ave)

\* Repro, having picked id and drawn choice
ReproBody(p, id, choice, pay, ave) ==
    LET start_coop == p[id].coop
        w == Winner(p, id, choice)
        p1 == IF w = NoWinner THEN p ELSE [p EXCEPT ![id].coop = p[w].coop]
    IN  IF p1[id].coop = start_coop
        THEN [pop |-> p1, winner |-> w, calcs |-> 0]
        ELSE Recomputed(p1, id, w, pay, ave)

CurPayoffs == [CC |-> payoff_CC, CD |-> payoff_CD, DC |-> payoff_DC, DD |-> payoff_DD]

ReproStep(id, choice, drew) ==
    \E body \in {ReproBody(pop, id, choice, CurPayoffs, use_ave)} :
        /\ pop' = body.pop
        /\ last' = [id |-> id, start_coop |-> pop[id].coop,
                    total_fitness |-> TotalFitness(pop, pop[id].neighbors, 1),
                    choice |-> choice, drew |-> drew, winner |-> body.winner,
                    calcs |-> body.calcs, done |-> TRUE]
        /\ o' = o + 1
        /\ call' = [call EXCEPT !.repros = @ + 1]
        /\ UNCHANGED <<params, epoch, payoffs, pc, end_epoch, op, built, os>>
        /\ UNCHANGED qvars

\* one iteration of "for (size_t o = 0; o < N; o++) Repro();"
Repro ==
    /\ pc = "run"
    /\ o < N
    /\ \E id \in 0 .. N - 1 :
          /\ id \in DOMAIN pop
          /\ IF NeighborsHaveFitness(TotalFitness(pop, pop[id].neighbors, 1))
             THEN \E choice \in Choices(pop, id) : ReproStep(id, choice, TRUE)
             ELSE ReproStep(id, 0, FALSE)

\* "epoch++" and the next test of "while (epoch < end_epoch)"
EndEpoch ==
    /\ pc = "run"
    /\ o >= N
    /\ epoch' = epoch + 1
    /\ o' = 0
    /\ last' = NoRepro
    /\ IF WhileTest(epoch + 1, end_epoch)
       THEN pc' = "run" /\ call' = call /\ end_epoch' = end_epoch
       ELSE pc' = "idle" /\ call' = [call EXCEPT !.state = "returned"] /\ end_epoch' = 0
    /\ UNCHANGED <<params, pop, payoffs, op, built, os>>
    /\ UNCHANGED qvars

\* Repro with N past the end of the population: "Org& org = pop[id]" with
\* id >= pop.size() is an access outside the vector, after which nothing is defined
ReproOutOfRange ==
    /\ pc = "run"
    /\ o < N
    /\ \E id \in 0 .. N - 1 :
          /\ id \notin DOMAIN pop
          /\ last' = [NoRepro EXCEPT !.id = id]
    /\ pc' = "undefined"
    /\ UNCHANGED <<params, epoch, pop, payoffs, end_epoch, o, call, op, built, os>>
    /\ UNCHANGED qvars

\* ---------------------------------------------------------------- setters
\* "void SetR(double _r) { r = _r; }"
SetR(_r) ==
    /\ pc = "idle"
    /\ r' = _r
    /\ op' = "SetR"
    /\ UNCHANGED <<u, N, E, use_ave, r_sqr, epoch, pop, payoffs,
                   pc, end_epoch, o, call, last, built, os>>

\* "void SetU(double _u) { u = _u; }"
SetU(_u) ==
    /\ pc = "idle"
    /\ u' = _u
    /\ op' = "SetU"
    /\ UNCHANGED <<r, N, E, use_ave, r_sqr, epoch, pop, payoffs,
                   pc, end_epoch, o, call, last, built, os>>

\* "void SetN(size_t _N) { N = _N; }"
SetN(_N) ==
    /\ pc = "idle"
    /\ N' = _N
    /\ op' = "SetN"
    /\ UNCHANGED <<r, u, E, use_ave, r_sqr, epoch, pop, payoffs,
                   pc, end_epoch, o, call, last, built, os>>

\* "void SetE(size_t _E) { E = _E; }"
SetE(_E) ==
    /\ pc = "idle"
    /\ E' = _E
    /\ op' = "SetE"
    /\ UNCHANGED <<r, u, N, use_ave, r_sqr, epoch, pop, payoffs,
                   pc, end_epoch, o, call, last, built, os>>

\* ---------------------------------------------------------------- PrintNeighborInfo
\* the first loop: the largest neighbor-list length, from 0
RECURSIVE MaxSizeLoop(_, _, _)
MaxSizeLoop(p, i, max_size) ==
    IF i >= Size(p) THEN max_size
    ELSE LET cur_size == Len(p[i].neighbors)
         IN  MaxSizeLoop(p, i + 1, IF cur_size > max_size THEN cur_size ELSE max_size)

\* the second loop: "hist[cur_size]++" for every organism
RECURSIVE HistLoop(_, _, _)
HistLoop(p, i, hist) ==
    IF i >= Size(p) THEN hist
    ELSE HistLoop(p, i + 1, [hist EXCEPT ![Len(p[i].neighbors)] = @ + 1])

\* "emp::vector<int> hist(max_size + 1, 0)" after the second loop
Hist(p) == HistLoop(p, 0, [d \in 0 .. MaxSizeLoop(p, 0, 0) |-> 0])

\* the output loop started at i = 1
HistLinesFromOne(hist) == [k \in 1 .. Cardinality(DOMAIN hist) - 1 |-> <<k, hist[k]>>]

\* the lines written after the header, "i,hist[i]" for i from 0 to hist.size() - 1
HistLines(hist) == [k \in 1 .. Cardinality(DOMAIN hist) |-> <<k - 1, hist[k - 1]>>]

PrintNeighborInfo ==
    /\ pc = "idle"
    /\ os' = HistLines(Hist(pop))
    /\ op' = "PrintNeighborInfo"
    /\ UNCHANGED <<params, epoch, pop, payoffs, pc, end_epoch, o, call, last, built>>
    /\ UNCHANGED qvars

\* ---------------------------------------------------------------- run queue
\* the text of a cell that holds no number yet, "Waiting..."
Waiting == -1

\* the header row that DivAddTable(1, 8, "result_tab") makes
Header == [run |-> Waiting, epoch |-> Waiting, coop |-> Waiting, defect |-> Waiting]

\* front is the seq of the last run that an animation frame found at the front of
\* the queue, recorded is the RunInfo as the last frame wrote it, stale the members
\* of a RunInfo that the last frame accessed when the RunInfo had left the queue
NoFrame == [id |-> 0, cur_epoch |-> 0, front |-> 0, recorded |-> <<>>, stale |-> {}]
NoLog == [adds |-> 0, removes |-> 0, call |-> "none", was_empty |-> TRUE,
          asserted |-> "none", front |-> <<>>, gone |-> <<>>]
NoTable == [ordered_names |-> <<>>, dependant_headers |-> {}, rows |-> <<>>,
            line_id |-> 0, col_count |-> 0, i |-> 0, pc |-> "idle"]

\* the settings that setup() gives the SettingConfig: r_value, u_value, N_value,
\* E_value
Settings == 4

\* the QueueManager classes: with MyConfig, with SettingConfig, with four scalars
Versions == {"MyConfig", "SettingConfig", "scalars"}

\* a RunInfo as its constructor leaves it; seq, row and setups are not members:
\* seq counts the AddRun calls up to this one, row is the table row appended for
\* the run, setups counts the Setup calls made for it
RunInfo(_id, _r, _u, _N, _E, _seq) ==
    [id |-> _id, r |-> _r, u |-> _u, N |-> _N, E |-> _E,
     cur_epoch |-> 0, num_coop |-> 0, num_defect |-> 0,
     seq |-> _seq, row |-> 0, setups |-> 0]

IsEmpty(rs) == rs = <<>>

RunsRemaining(rs) == Len(rs)

\* runs.push(RunInfo(runs.size(), ...))
AddRun(rs, _r, _u, _N, _E, _seq) ==
    Append(rs, RunInfo(RunsRemaining(rs), _r, _u, _N, _E, _seq))

\* the condition that emp_assert tests in RemoveRun and FrontRun
Precondition(v, rs) ==
    IF v = "SettingConfig" THEN ~IsEmpty(rs) ELSE IsEmpty(rs)

\* how a call of RemoveRun or FrontRun ends: the assertion stops the program,
\* front() or pop() acts on an empty std::queue, or the call returns
Outcome(nd, v, rs) ==
    IF ~nd /\ ~Precondition(v, rs) THEN "aborted"
    ELSE IF IsEmpty(rs) THEN "undefined"
    ELSE "ok"

RemoveRunBack(rs) == SubSeq(rs, 1, Len(rs) - 1)

\* runs.pop()
RemoveRun(rs) == Tail(rs)

\* runs.front()
FrontRun(rs) == Head(rs)

Logged(name, rs, out) ==
    [qlog EXCEPT !.call = name, !.was_empty = IsEmpty(rs),
                 !.asserted = IF ndebug THEN "none"
                              ELSE IF out = "aborted" THEN "failed" ELSE "passed"]

\* the world is not touched
WorldUnchanged ==
    UNCHANGED <<params, epoch, pop, payoffs, pc, end_epoch, o, call, last, op, built, os>>

AddRunCall(_r, _u, _N, _E) ==
    /\ dpc = "idle"
    /\ RunsRemaining(runs) < MaxQueue
    /\ qlog.adds < MaxAdds
    /\ runs' = AddRun(runs, _r, _u, _N, _E, qlog.adds + 1)
    /\ qlog' = [qlog EXCEPT !.adds = @ + 1, !.call = "AddRun",
                            !.was_empty = IsEmpty(runs), !.asserted = "none"]
    /\ UNCHANGED <<ndebug, version, table, num_runs, anim_step, active, dpc, fr, dbt>>
    /\ WorldUnchanged

RemoveRunCall ==
    /\ dpc = "idle"
    /\ \E out \in {Outcome(ndebug, version, runs)} :
          /\ dpc' = IF out = "ok" THEN "idle" ELSE out
          /\ runs' = IF out = "ok" THEN RemoveRun(runs) ELSE runs
          /\ qlog' = IF out = "ok"
                        THEN [Logged("RemoveRun", runs, out) EXCEPT
                                 !.removes = @ + 1, !.gone = <<FrontRun(runs)>>]
                        ELSE Logged("RemoveRun", runs, out)
    /\ UNCHANGED <<ndebug, version, table, num_runs, anim_step, active, fr, dbt>>
    /\ WorldUnchanged

FrontRunCall ==
    /\ dpc = "idle"
    /\ \E out \in {Outcome(ndebug, version, runs)} :
          /\ dpc' = IF out = "ok" THEN "idle" ELSE out
          /\ qlog' = IF out = "ok"
                        THEN [Logged("FrontRun", runs, out) EXCEPT
                                 !.front = <<FrontRun(runs)>>]
                        ELSE Logged("FrontRun", runs, out)
    /\ UNCHANGED <<ndebug, version, runs, table, num_runs, anim_step, active, fr, dbt>>
    /\ WorldUnchanged

\* the other members of the page and of the queue are not touched
TableOnly ==
    UNCHANGED <<ndebug, version, runs, table, num_runs, anim_step, active, dpc, fr, qlog>>

\* ordered_names.push_back, dependant_headers.insert: the map keeps one entry
\* for each name
AddDepVariable(header_name) ==
    /\ dbt.pc \in {"idle", "done"}
    /\ Len(dbt.ordered_names) < MaxHeaders
    /\ dbt' = [dbt EXCEPT !.ordered_names = Append(@, header_name),
                          !.dependant_headers = @ \cup {header_name},
                          !.pc = "idle"]
    /\ TableOnly
    /\ WorldUnchanged

\* DivButtonTable of the SettingConfig class up to its loop: the new row, the
\* run_id cell and one cell for each setting
DivButtonTableBegin(run_id) ==
    /\ dbt.pc \in {"idle", "done"}
    /\ Len(dbt.rows) < MaxAdds
    /\ dbt' = [dbt EXCEPT !.line_id = Len(dbt.rows) + 1,
                          !.rows = Append(@, [run |-> run_id, waiting |-> 0]),
                          !.col_count = 1 + Settings,
                          !.i = 0,
                          !.pc = "loop"]
    /\ TableOnly
    /\ WorldUnchanged

\* the test of the loop, dependant_headers.size() <= i
LoopTest(size, i) == size <= i

\* one test of the loop and, where it passes, the body and i++; i++ at INT_MAX
\* is a signed overflow
DivButtonTableLoop ==
    /\ dbt.pc = "loop"
    /\ IF LoopTest(Cardinality(dbt.dependant_headers), dbt.i)
          THEN dbt' = [dbt EXCEPT !.rows[dbt.line_id].waiting = @ + 1,
                                 !.col_count = @ + 1,
                                 !.i = IF @ = MaxInt THEN @ ELSE @ + 1,
                                 !.pc = IF dbt.i = MaxInt THEN "undefined" ELSE @]
          ELSE dbt' = [dbt EXCEPT !.pc = "done"]
    /\ TableOnly
    /\ WorldUnchanged

\* ---------------------------------------------------------------- page
Min(a, b) == IF a < b THEN a ELSE b

\* the value that the Fast Forward button gives anim_step
FastForward == 100

\* the difference a - b of two size_t, modulo SIZE_MAX + 1
SizeT(x) == IF x < 0 THEN (x + SIZE_MAX) + 1 ELSE x

CountCoop(p) == Cardinality({i \in DOMAIN p : p[i].coop})

\* DivButtonTable of the class with four scalars: a new last row that holds run_id
\* and "Waiting..." in the cells for epoch, cooperators and defectors
DivButtonTable(tb, run_id) ==
    Append(tb, [run |-> run_id, epoch |-> Waiting, coop |-> Waiting,
                defect |-> Waiting])

\* GetCell(id + 1, ...) is a cell of the table; the header is row 0
InTable(tb, id) == id + 2 <= Len(tb)

DivInfoTable(tb, id, cur_epoch, num_coop, num_defect) ==
    [tb EXCEPT ![id + 2].epoch = cur_epoch,
               ![id + 2].coop = num_coop,
               ![id + 2].defect = num_defect]

\* the loop of the Queue button from run_id on: AddRun, then DivButtonTable
RECURSIVE QueueLoop(_, _, _, _, _)
QueueLoop(rs, tb, adds, run_id, num) ==
    IF run_id < num
    THEN QueueLoop([AddRun(rs, r, u, N, E, adds + 1) EXCEPT ![Len(rs) + 1].row = Len(tb)],
                   DivButtonTable(tb, run_id), adds + 1, run_id + 1, num)
    ELSE [runs |-> rs, table |-> tb, adds |-> adds]

\* between two events of the page: no frame and no Run is in progress
Quiet == dpc = "idle" /\ pc = "idle"

QueueClick ==
    /\ Quiet
    /\ RunsRemaining(runs) + num_runs <= MaxQueue
    /\ qlog.adds + num_runs <= MaxAdds
    /\ \E q \in {QueueLoop(runs, table, qlog.adds, 0, num_runs)} :
          /\ runs' = q.runs
          /\ table' = q.table
          /\ qlog' = [qlog EXCEPT !.adds = q.adds, !.call = "AddRun"]
    /\ UNCHANGED <<ndebug, version, num_runs, anim_step, active, dpc, fr, dbt>>
    /\ WorldUnchanged

\* the Play button: anim_step = 1; TogglePlay()
PlayClick ==
    /\ Quiet
    /\ anim_step' = 1
    /\ active' = ~active
    /\ UNCHANGED <<ndebug, version, runs, table, num_runs, dpc, fr, qlog, dbt>>
    /\ WorldUnchanged

\* the Fast Forward button: anim_step = 100; TogglePlay()
FastForwardClick ==
    /\ Quiet
    /\ anim_step' = FastForward
    /\ active' = ~active
    /\ UNCHANGED <<ndebug, version, runs, table, num_runs, dpc, fr, qlog, dbt>>
    /\ WorldUnchanged

\* the Step button: world.Run(1)
StepClick ==
    /\ Quiet
    /\ Run(1)
    /\ UNCHANGED qvars

\* the Randomize button: world.Reset()
RandomizeClick(D) ==
    /\ Quiet
    /\ Reset(D)
    /\ UNCHANGED qvars

\* the animation frame up to world.Run: with a run at the front that has recorded
\* no epoch, the world is set up for it
FrameBegin(D) ==
    /\ Quiet
    /\ active
    /\ IF IsEmpty(runs)
       THEN /\ epoch + Min(anim_step, E) <= MaxEpoch
            /\ dpc' = "run"
            /\ UNCHANGED <<runs, fr>>
            /\ WorldUnchanged
       ELSE \E out \in {Outcome(ndebug, version, runs)} :
              IF out # "ok"
              THEN /\ dpc' = out
                   /\ fr' = [fr EXCEPT !.front = FrontRun(runs).seq]
                   /\ UNCHANGED runs
                   /\ WorldUnchanged
              ELSE /\ dpc' = "run"
                   /\ fr' = [fr EXCEPT !.front = FrontRun(runs).seq]
                   /\ IF FrontRun(runs).cur_epoch = 0
                      THEN /\ Min(anim_step, FrontRun(runs).E) <= MaxEpoch
                           /\ FrontRun(runs).setups < MaxSetups
                           /\ Setup(FrontRun(runs).r, FrontRun(runs).u,
                                    FrontRun(runs).N, FrontRun(runs).E, FALSE, D)
                           /\ runs' = [runs EXCEPT ![1].setups = @ + 1]
                      ELSE /\ epoch + Min(anim_step, E) <= MaxEpoch
                           /\ UNCHANGED runs
                           /\ WorldUnchanged
    /\ UNCHANGED <<ndebug, version, table, num_runs, anim_step, active, qlog, dbt>>

\* world.Run(anim_step) of the frame
FrameRun ==
    /\ dpc = "run"
    /\ Run(anim_step)
    /\ dpc' = "record"
    /\ UNCHANGED <<ndebug, version, runs, table, num_runs, anim_step, active, fr, qlog, dbt>>

\* the members accessed through current_run after the test that may call
\* RemoveRun: cur_epoch, num_coop and num_defect are written, N, num_coop and
\* num_defect are read
Accessed == {"cur_epoch", "num_coop", "N", "num_defect"}

\* what the writes through current_run do once RemoveRun has popped the run it
\* refers to: they land in the storage the run had, or anything else happens
Dangling == {"ok", "undefined"}

\* Are we done with this run?
RecordRemoves(run, cur_epoch) == run.E <= cur_epoch

\* the rest of the frame, after world.Run has returned: the progress of the run at
\* the front is recorded in the run and in its table row
FrameRecord ==
    /\ dpc = "record"
    /\ pc = "idle"
    /\ IF IsEmpty(runs)
       THEN /\ dpc' = "idle"
            /\ UNCHANGED <<runs, table, fr, qlog>>
       ELSE \E out \in {Outcome(ndebug, version, runs)} :
              IF out # "ok"
              THEN /\ dpc' = out
                   /\ UNCHANGED <<runs, table, fr, qlog>>
              ELSE LET id == FrontRun(runs).id
                       cur_epoch == epoch
                       num_coop == CountCoop(pop)
                       num_defect == SizeT(FrontRun(runs).N - num_coop)
                       written == [FrontRun(runs) EXCEPT !.cur_epoch = cur_epoch,
                                                         !.num_coop = num_coop,
                                                         !.num_defect = num_defect]
                   IN  /\ fr' = [fr EXCEPT !.id = id, !.cur_epoch = cur_epoch,
                                           !.recorded = <<written>>,
                                           !.stale =
                                               IF RecordRemoves(FrontRun(runs), cur_epoch)
                                               THEN Accessed ELSE {}]
                       /\ IF RecordRemoves(FrontRun(runs), cur_epoch)
                          THEN /\ runs' = RemoveRun(runs)
                               /\ qlog' = [qlog EXCEPT !.removes = @ + 1,
                                                       !.call = "RemoveRun",
                                                       !.gone = <<written>>]
                               /\ \E ub \in Dangling :
                                     IF ub = "ok" /\ InTable(table, id)
                                     THEN /\ dpc' = "idle"
                                          /\ table' = DivInfoTable(table, id, cur_epoch,
                                                                   num_coop, num_defect)
                                     ELSE /\ dpc' = "undefined"
                                          /\ table' = table
                          ELSE /\ runs' = [runs EXCEPT ![1] = written]
                               /\ qlog' = qlog
                               /\ IF InTable(table, id)
                                  THEN /\ dpc' = "idle"
                                       /\ table' = DivInfoTable(table, id, cur_epoch,
                                                                num_coop, num_defect)
                                  ELSE /\ dpc' = "undefined"
                                       /\ table' = table
    /\ UNCHANGED <<ndebug, version, num_runs, anim_step, active, dbt>>
    /\ WorldUnchanged

\* the page with nothing queued, in a build without assertions
PageUnused ==
    /\ ndebug = TRUE
    /\ version = "scalars"
    /\ runs = <<>>
    /\ table = <<Header>>
    /\ num_runs = 0
    /\ anim_step = 1
    /\ active = FALSE
    /\ dpc = "idle"
    /\ fr = NoFrame
    /\ qlog = NoLog
    /\ dbt = NoTable

\* ---------------------------------------------------------------- specifications
\* the arguments of Run tried: 0 .. MaxSteps and the default
Steps == (0 .. MaxSteps) \cup {SIZE_MAX}

\* Epochs: every N, E and steps, on agents without neighbors (r = 0)
EpochDraw == [x : {0}, y : {0}, coop : BOOLEAN]

InitEpochs ==
    /\ \E _N \in 1 .. MaxN, _E \in 0 .. MaxE : Construct(0, 0, _N, _E, FALSE, EpochDraw)
    /\ PageUnused

SetupEpochs ==
    /\ \E _N \in 1 .. MaxN, _E \in 0 .. MaxE : Setup(0, 0, _N, _E, FALSE, EpochDraw)
    /\ UNCHANGED qvars

ResetEpochs ==
    /\ Reset(EpochDraw)
    /\ UNCHANGED qvars

RunEpochs ==
    /\ \E steps \in Steps : Run(steps)
    /\ UNCHANGED qvars

Next == SetupEpochs \/ ResetEpochs \/ RunEpochs \/ Repro \/ EndEpoch

Spec == InitEpochs /\ [][Next]_vars

\* Reproduction: the first epoch (E = 1) of populations spread over the second axis,
\* so that agents at different places are not neighbors even with r = MaxR
ReproDraw == [x : {0}, y : {0, Grid - 1}, coop : BOOLEAN]

InitRepro ==
    /\ \E _r \in {0, MaxR}, _u \in {0, MaxU}, _N \in 1 .. MaxN, _ave \in BOOLEAN : Construct(_r, _u, _N, 1, _ave, ReproDraw)
    /\ PageUnused

\* a later Setup, to a smaller population gathered at one point
SetupRepro ==
    /\ \E _ave \in BOOLEAN : Setup(MaxR, MaxU, MaxN - 1, 1, _ave, EpochDraw)
    /\ UNCHANGED qvars

\* a Reset, to a population gathered at one point
ResetRepro ==
    /\ Reset(EpochDraw)
    /\ UNCHANGED qvars

RunRepro ==
    /\ epoch = 0 /\ Run(1)
    /\ UNCHANGED qvars

NextRepro == SetupRepro \/ ResetRepro \/ RunRepro \/ Repro \/ EndEpoch

SpecRepro == InitRepro /\ [][NextRepro]_vars

\* Graph: every radius, on populations at the corners of the unit square, all
\* defecting; the default Run takes the whole budget
GraphDraw == [x : {0, Grid - 1}, y : {0, Grid - 1}, coop : {FALSE}]

InitGraph ==
    /\ \E _r \in 0 .. MaxR, _N \in 1 .. MaxN : Construct(_r, 0, _N, MaxEpoch, FALSE, GraphDraw)
    /\ PageUnused

\* a later Setup or Reset draws on one side of the square
GraphResetDraw == [x : {0}, y : {0, Grid - 1}, coop : {FALSE}]

\* a later Setup, to a smaller population
SetupGraph ==
    /\ \E _r \in 0 .. MaxR : Setup(_r, 0, MaxN - 1, MaxEpoch, FALSE, GraphResetDraw)
    /\ UNCHANGED qvars

ResetGraph ==
    /\ Reset(GraphResetDraw)
    /\ UNCHANGED qvars

RunGraph ==
    /\ Run(SIZE_MAX)
    /\ UNCHANGED qvars

NextGraph == SetupGraph \/ ResetGraph \/ RunGraph \/ Repro \/ EndEpoch

SpecGraph == InitGraph /\ [][NextGraph]_vars

\* Setters: the setters between Setup, Reset and Run, on populations gathered at one
\* point; E is 0 or 1 and Run takes its default, so a call runs at most one epoch
InitSetters ==
    /\ \E _N \in {1, MaxN - 1, MaxN} : Construct(MaxR, 0, _N, 1, FALSE, EpochDraw)
    /\ PageUnused

\* a later Setup or Reset draws defectors only
SetterDraw == [x : {0}, y : {0}, coop : {FALSE}]

SetupSetters ==
    /\ \E _ave \in BOOLEAN : Setup(MaxR, MaxU, MaxN - 1, 0, _ave, SetterDraw)
    /\ UNCHANGED qvars

ResetSetters ==
    /\ Reset(SetterDraw)
    /\ UNCHANGED qvars

SetRSetters ==
    /\ \E _r \in {0, MaxR} : SetR(_r)
    /\ UNCHANGED qvars

SetUSetters ==
    /\ \E _u \in {0, MaxU} : SetU(_u)
    /\ UNCHANGED qvars

SetNSetters ==
    /\ \E _N \in {1, MaxN - 1, MaxN} : SetN(_N)
    /\ UNCHANGED qvars

SetESetters ==
    /\ \E _E \in {0, 1} : SetE(_E)
    /\ UNCHANGED qvars

RunSetters ==
    /\ epoch = 0 /\ Run(SIZE_MAX)
    /\ UNCHANGED qvars

NextSetters ==
    \/ SetupSetters \/ ResetSetters
    \/ SetRSetters \/ SetUSetters \/ SetNSetters \/ SetESetters
    \/ RunSetters \/ Repro \/ ReproOutOfRange \/ EndEpoch

SpecSetters == InitSetters /\ [][NextSetters]_vars

\* Histogram: PrintNeighborInfo on the populations of Graph
NextHist == PrintNeighborInfo \/ ResetGraph

SpecHist == InitGraph /\ [][NextHist]_vars

\* the queue alone: AddRun, RemoveRun and FrontRun called in any order, in every
\* build of every version
QueueN == {1, MaxN - 1}

InitQueue ==
    /\ Construct(0, 0, 1, 0, FALSE, SetterDraw)
    /\ ndebug \in BOOLEAN
    /\ version \in Versions
    /\ runs = <<>>
    /\ table = <<Header>>
    /\ num_runs = 0
    /\ anim_step = 1
    /\ active = FALSE
    /\ dpc = "idle"
    /\ fr = NoFrame
    /\ qlog = NoLog
    /\ dbt = NoTable

AddRunQueue == \E _N \in QueueN, _E \in {0, MaxE} : AddRunCall(0, 0, _N, _E)

NextQueue == AddRunQueue \/ RemoveRunCall \/ FrontRunCall

SpecQueue == InitQueue /\ [][NextQueue]_vars

\* the table of the SettingConfig class: dependent headers are registered and
\* rows are added for queued runs
HeaderNames == {"epoch", "coop"}

InitTable ==
    /\ Construct(0, 0, 1, 0, FALSE, SetterDraw)
    /\ ndebug \in BOOLEAN
    /\ version = "SettingConfig"
    /\ runs = <<>>
    /\ table = <<Header>>
    /\ num_runs = 0
    /\ anim_step = 1
    /\ active = FALSE
    /\ dpc = "idle"
    /\ fr = NoFrame
    /\ qlog = NoLog
    /\ dbt = NoTable

AddDepVariableTable == \E header_name \in HeaderNames : AddDepVariable(header_name)

DivButtonTableTable == \E run_id \in 0 .. MaxQueue - 1 : DivButtonTableBegin(run_id)

NextTable == AddDepVariableTable \/ DivButtonTableTable \/ DivButtonTableLoop

SpecTable == InitTable /\ [][NextTable]_vars

\* the page as its user drives it with the Queue, Play and Fast Forward buttons
\* and the count of runs: the queued runs are worked through by the animation
PageN == {1, MaxN - 1}
PageE == {e \in 0 .. MaxE : 2 * e - 1 <= MaxEpoch}

InitPage ==
    /\ \E _N \in PageN, _E \in PageE : Construct(0, 0, _N, _E, FALSE, SetterDraw)
    /\ ndebug \in BOOLEAN
    /\ version = "scalars"
    /\ runs = <<>>
    /\ table = <<Header>>
    /\ num_runs \in 1 .. MaxQueue
    /\ anim_step = 1
    /\ active = FALSE
    /\ dpc = "idle"
    /\ fr = NoFrame
    /\ qlog = NoLog
    /\ dbt = NoTable

FramePage == FrameBegin(EpochDraw)

NextDriver ==
    \/ QueueClick
    \/ PlayClick
    \/ FastForwardClick
    \/ FramePage
    \/ FrameRun
    \/ Repro
    \/ EndEpoch
    \/ FrameRecord

SpecDriver == InitPage /\ [][NextDriver]_vars

\* the page with its other controls as well: the Step and Randomize buttons and
\* the text areas that call SetN and SetE
CoopDraw == [x : {0}, y : {0}, coop : {TRUE}]

InitControls == InitPage /\ num_runs = 1

QueueControls == qlog.adds < MaxClicks /\ QueueClick

FrameSetters == FrameBegin(SetterDraw)

RandomizePage == RandomizeClick(CoopDraw)

SetNPage ==
    /\ Quiet
    /\ \E _N \in PageN : SetN(_N)
    /\ UNCHANGED qvars

SetEPage ==
    /\ Quiet
    /\ \E _E \in PageE : SetE(_E)
    /\ UNCHANGED qvars

NextPage ==
    \/ QueueControls
    \/ PlayClick
    \/ FrameSetters
    \/ FrameRun
    \/ Repro
    \/ EndEpoch
    \/ FrameRecord
    \/ StepClick
    \/ RandomizePage
    \/ SetNPage
    \/ SetEPage
    \/ ReproOutOfRange

SpecPage == InitControls /\ [][NextPage]_vars

\* ---------------------------------------------------------------- epochs

Returned == pc = "idle" /\ call.state = "returned"

\* C1: in every state reachable by Setup, Run(steps) and Reset, epoch <= E.
EpochNeverPastE == epoch <= E

\* C2: a Run(steps) called at epoch e returns with epoch = e + min(steps, E - e);
\* in particular the default Run() returns with epoch = E.
RunPerformsMinOfStepsAndRemaining ==
    Returned =>
        /\ epoch = call.start + Min(call.steps, E - call.start)
        /\ call.steps = SIZE_MAX => epoch = E

\* C3: a Run(k) with k <= E - epoch returns with epoch increased by exactly k after
\* exactly k*N Repro calls, N of them between two successive increments of epoch.
EpochAccounting ==
    /\ call.state # "none" =>
          /\ o <= N
          /\ call.repros = (epoch - call.start) * N + o
    /\ (Returned /\ call.steps <= E - call.start) =>
          /\ epoch = call.start + call.steps
          /\ call.repros = call.steps * N

EpochAccountingWitness ==
    /\ Returned
    /\ call.steps <= E - call.start
    /\ call.steps = MaxSteps
    /\ N = MaxN
    /\ call.repros = MaxSteps * MaxN

\* ---------------------------------------------------------------- fitness
\* a Repro call has returned and changed the picked agent's strategy
Flipped == last.done /\ pop[last.id].coop # last.start_coop

\* C4: after Setup and after every completed Repro call, every agent's stored fitness
\* is the value CalcFitness computes from the current strategies and neighbor lists.
FitnessConsistent ==
    \A i \in DOMAIN pop : pop[i].fitness = FitnessOf(pop, i, CurPayoffs, use_ave)

FitnessConsistentWitness ==
    /\ Flipped
    /\ Len(pop[last.id].neighbors) = MaxN - 1
    /\ FitnessConsistent

\* ---------------------------------------------------------------- graph
InNeighbors(p, i, j) == \E k \in 1 .. Len(p[i].neighbors) : p[i].neighbors[k] = j

\* C5: in every state after Setup, the neighbor relation is symmetric.
NeighborsSymmetric ==
    \A i, j \in DOMAIN pop : InNeighbors(pop, i, j) <=> InNeighbors(pop, j, i)

NeighborsSymmetricWitness ==
    /\ Returned
    /\ N = MaxN
    /\ InNeighbors(pop, 0, MaxN - 1)
    /\ ~InNeighbors(pop, 0, 1)

\* the squared distance on the torus, each difference taken along its shorter arc
TorusDistSqr(org1, org2) ==
    LET dx == Wrap(Abs(org1.x - org2.x))
        dy == Wrap(Abs(org1.y - org2.y))
    IN  dx * dx + dy * dy

\* C6: after Setup two distinct agents are neighbors if and only if their toroidal
\* squared distance, both differences wrapped to the shorter arc, is below r*r.
NeighborsIffWithinTorusRadius ==
    \A i, j \in DOMAIN pop :
        i # j => (InNeighbors(pop, i, j) <=> TorusDistSqr(pop[i], pop[j]) < r * r)

\* ---------------------------------------------------------------- reproduction
\* the step is one call of Repro
ReproCall == pc = "run" /\ o' = o + 1

Others(id) == DOMAIN pop \ {id}

\* C7: one Repro call changes the strategy of no agent but the one it picked.
ReproChangesOnlyPicked ==
    [][ReproCall =>
          /\ DOMAIN pop' = DOMAIN pop
          /\ \A i \in Others(last'.id) : pop'[i].coop = pop[i].coop]_vars

ReproChangesOnlyPickedWitness ==
    /\ Flipped
    /\ N = MaxN
    /\ \E i \in Others(last.id) : pop[i].coop = last.start_coop

\* C8: when a Repro call changes the picked agent's strategy, the new strategy is one
\* that a neighbor of it held when the call started.
ReproCopiesANeighbor ==
    [][ReproCall =>
          LET id == last'.id
          IN  pop'[id].coop # pop[id].coop =>
                 \E k \in 1 .. Len(pop[id].neighbors) :
                     pop[pop[id].neighbors[k]].coop = pop'[id].coop]_vars

ReproCopiesANeighborWitness ==
    /\ Flipped
    /\ last.winner # NoWinner
    /\ pop[last.winner].coop = pop[last.id].coop
    /\ \E i \in Others(last.id) : ~InNeighbors(pop, last.id, i)

\* the cases in which Repro keeps the strategy: no neighbor, a neighbor total that is
\* not positive, or a draw in the picked agent's own share
Stays(l, nbrs) ==
    \/ Len(nbrs) = 0
    \/ ~FLess(0, l.total_fitness)
    \/ l.drew /\ ~FLess(l.choice, l.total_fitness)

\* C9: a Repro call whose picked agent has no neighbors, or whose neighbors' fitness
\* sums to a value <= 0, or whose draw satisfies choice >= total, leaves that agent's
\* strategy unchanged; with N = 1 and r = 0 a Run(k), k <= E - epoch, returns with
\* epoch advanced by k and the strategy of the single agent never changes.
ReproKeepsStrategy ==
    [][/\ ReproCall /\ Stays(last', pop[last'.id].neighbors) =>
             pop'[last'.id].coop = pop[last'.id].coop
       /\ (N = 1 /\ r = 0 /\ pc = "run") => pop'[0].coop = pop[0].coop
       /\ (N = 1 /\ r = 0 /\ Returned' /\ call'.steps <= E - call'.start) =>
             epoch' = call'.start + call'.steps]_vars

ReproKeepsStrategyWitness ==
    /\ last.done
    /\ last.drew
    /\ ~FLess(last.choice, last.total_fitness)
    /\ \E k \in 1 .. Len(pop[last.id].neighbors) :
          pop[pop[last.id].neighbors[k]].coop # pop[last.id].coop

Graph(p) == [i \in DOMAIN p |-> <<p[i].x, p[i].y, p[i].neighbors>>]

\* C11: no step of a Run call changes an agent's position or neighbor list, the
\* population length, r, u, N, E, use_ave, r_sqr or a payoff value.
RunKeepsGraphAndParameters ==
    [][op' = "Run" =>
          /\ Graph(pop') = Graph(pop)
          /\ <<r, u, N, E, use_ave, r_sqr>>' = <<r, u, N, E, use_ave, r_sqr>>
          /\ <<payoff_CC, payoff_CD, payoff_DC, payoff_DD>>'
                = <<payoff_CC, payoff_CD, payoff_DC, payoff_DD>>]_vars

RunKeepsGraphAndParametersWitness ==
    /\ Flipped
    /\ op = "Run"
    /\ N = MaxN
    /\ o = N

\* ---------------------------------------------------------------- setters
\* C12: in every state after the first Setup, under Setup, Run, Reset and the
\* setters, the population has N agents.
PopLengthIsN == Size(pop) = N

\* C13: a setter call does not affect the live run: a Run makes as many Repro calls
\* per epoch, picks from the same index range and applies the same epoch cap as the
\* values of the last Setup or Reset give.
SettersLeaveLiveRun ==
    /\ call.state # "none" =>
          /\ o <= built.N
          /\ call.repros = (epoch - call.start) * built.N + o
          /\ last.id < built.N
    /\ Returned => epoch = call.start + Min(call.steps, built.E)

\* C14: in every state after the first Setup, under Setup, Run, Reset and SetU, the
\* payoffs are CC = 1, CD = 0, DC = 1 + u, DD = u for the u that GetU returns.
PayoffsFollowU ==
    /\ payoff_CC = 1
    /\ payoff_CD = 0
    /\ payoff_DC = 1 + u
    /\ payoff_DD = u

\* C15: Reset keeps r, u, N, E and use_average as they were immediately before it.
ResetKeepsConfiguration ==
    [][op' = "Reset" => <<r, u, N, E, use_ave>>' = <<r, u, N, E, use_ave>>]_vars

\* the neighbor list holds indices below n only, none of them twice
ListWithin(nbrs, n) ==
    /\ \A k \in 1 .. Len(nbrs) : nbrs[k] \in 0 .. n - 1
    /\ \A k, l \in 1 .. Len(nbrs) : nbrs[k] = nbrs[l] => k = l

\* C16: Setup and Reset, from any reachable state, leave epoch = 0, a population of
\* exactly N agents, neighbor lists that hold only indices < N and exactly the edges
\* of the newly drawn positions, and every fitness consistent with the new strategies
\* and graph.
SetupRebuildsEverything ==
    op \in {"Setup", "Reset"} =>
        /\ epoch = 0
        /\ DOMAIN pop = 0 .. N - 1
        /\ \A i \in DOMAIN pop :
              /\ ListWithin(pop[i].neighbors, N)
              /\ \A j \in DOMAIN pop :
                    InNeighbors(pop, i, j) <=>
                        (i # j /\ DistSqr(pop[i], pop[j]) < r * r)
              /\ pop[i].fitness = FitnessOf(pop, i, PayoffTable(u), use_ave)

SetupRebuildsEverythingWitness ==
    /\ op = "Reset"
    /\ N = MaxN
    /\ u = MaxU
    /\ Len(pop[0].neighbors) = MaxN - 1
    /\ pop[0].fitness > 0

\* ---------------------------------------------------------------- payoff sums
\* the neighbors of i that cooperate (c = TRUE) or defect (c = FALSE)
Playing(i, c) == {k \in 1 .. Len(pop[i].neighbors) : pop[pop[i].neighbors[k]].coop = c}

Cc(i) == Cardinality(Playing(i, TRUE))
Cd(i) == Cardinality(Playing(i, FALSE))

PayoffSum(i) ==
    LET sum == IF pop[i].coop THEN Cc(i) * 1 + Cd(i) * 0
               ELSE Cc(i) * (1 + u) + Cd(i) * u
    IN  IF use_ave THEN FDiv(sum * Unit, Cc(i) + Cd(i)) ELSE sum * Unit

Isolated(i) == Len(pop[i].neighbors) = 0

\* C18: under use_average the fitness of an agent without neighbors is the
\* not-a-number value and nothing else is; whichever agent Repro picks, the total it
\* sums and the bound of its draw are numbers, so Setup and Run go through.
IsolatedAverageIsDefined ==
    \A i \in DOMAIN pop :
        LET total_fitness == TotalFitness(pop, pop[i].neighbors, 1)
        IN  /\ IsNaN(pop[i].fitness) <=> (use_ave /\ Isolated(i))
            /\ ~IsNaN(total_fitness)
            /\ FLess(0, total_fitness) =>
                   /\ ~IsNaN(FAdd(total_fitness, pop[i].fitness))
                   /\ Choices(pop, i) # {}

IsolatedAverageIsDefinedWitness ==
    /\ Returned
    /\ use_ave
    /\ N = MaxN
    /\ call.repros = N
    /\ \E i \in DOMAIN pop : Isolated(i)
    /\ \E i \in DOMAIN pop : ~Isolated(i)

\* ---------------------------------------------------------------- histogram
MaxDeg == CHOOSE d \in 0 .. Size(pop) :
              /\ \E i \in DOMAIN pop : Len(pop[i].neighbors) = d
              /\ \A i \in DOMAIN pop : Len(pop[i].neighbors) <= d

WithDegree(d) == {i \in DOMAIN pop : Len(pop[i].neighbors) = d}

RECURSIVE SumCounts(_, _)
SumCounts(lines, k) == IF k > Len(lines) THEN 0 ELSE lines[k][2] + SumCounts(lines, k + 1)

\* C20: the histogram lists the degrees 0, 1, ..., maxdeg in increasing order, each
\* with the number of agents of that degree; the counts sum to N; writing it changes
\* no engine state.
HistogramCountsDegrees ==
    [][op' = "PrintNeighborInfo" =>
          /\ Len(os') = MaxDeg + 1
          /\ \A k \in 1 .. Len(os') :
                /\ os'[k][1] = k - 1
                /\ os'[k][2] = Cardinality(WithDegree(k - 1))
          /\ SumCounts(os', 1) = N
          /\ UNCHANGED <<r, u, N, E, use_ave, r_sqr, epoch, pop,
                         payoff_CC, payoff_CD, payoff_DC, payoff_DD>>]_vars

HistogramCountsDegreesWitness ==
    /\ op = "PrintNeighborInfo"
    /\ N = MaxN
    /\ Len(os) = MaxN
    /\ os[1][2] = 0

\* ---------------------------------------------------------------- list order
\* C24: after Setup every neighbor list is strictly ascending by agent index, so it
\* holds no index twice, and it never holds the agent's own index.
NeighborsAscending ==
    \A i \in DOMAIN pop :
        /\ \A k, l \in 1 .. Len(pop[i].neighbors) :
              k < l => pop[i].neighbors[k] < pop[i].neighbors[l]
        /\ ~InNeighbors(pop, i, i)

NeighborsAscendingWitness ==
    /\ op = "Setup"
    /\ N = MaxN
    /\ InNeighbors(pop, MaxN - 2, 0)
    /\ InNeighbors(pop, MaxN - 2, MaxN - 1)
    /\ pop[0].x # pop[MaxN - 1].x

\* the fitness of the first k neighbors of id, summed
RECURSIVE Cumulative(_, _, _)
Cumulative(p, id, k) ==
    IF k = 0 THEN 0
    ELSE Cumulative(p, id, k - 1) + p[p[id].neighbors[k]].fitness

\* the first position in id's list at which the cumulative fitness exceeds c
FirstExceeding(p, id, c) ==
    CHOOSE k \in 1 .. Len(p[id].neighbors) :
        /\ Cumulative(p, id, k) > c
        /\ \A l \in 1 .. k - 1 : Cumulative(p, id, l) <= c

PreconditionFailsOnEmptyOnly ==
    (~ndebug /\ qlog.call \in {"FrontRun", "RemoveRun"}) =>
        /\ qlog.asserted = "failed" <=> qlog.was_empty
        /\ ~qlog.was_empty => dpc = "idle"

DivButtonTableWritesOnePerHeader ==
    /\ dbt.pc # "undefined"
    /\ dbt.pc = "loop" => dbt.i <= Cardinality(dbt.dependant_headers)
    /\ dbt.pc = "done" =>
           dbt.rows[dbt.line_id].waiting = Cardinality(dbt.dependant_headers)

\* ---------------------------------------------------------------- page
\* C23: while the animation fires, the queued runs are worked through in the order
\* they were queued and each is removed in the end. Stated on finite runs: the runs
\* leave the queue in the order of their AddRun calls, and the page never stops with
\* runs still in the queue.
QueueDrainsInOrder ==
    /\ qlog.gone # <<>> => qlog.gone[1].seq = qlog.removes
    /\ dpc \in {"aborted", "undefined"} => IsEmpty(runs)

\* C26: a queued run is removed exactly when the engine's epoch equals its E: no
\* cur_epoch recorded for a run exceeds the run's E, a run that stays in the queue
\* has recorded less than E, and a removed run has recorded E.
RecordedEpochWithinE ==
    /\ \A k \in 1 .. Len(runs) :
          runs[k].cur_epoch = 0 \/ runs[k].cur_epoch < runs[k].E
    /\ fr.recorded # <<>> => fr.recorded[1].cur_epoch <= fr.recorded[1].E
    /\ qlog.gone # <<>> => qlog.gone[1].cur_epoch = qlog.gone[1].E

\* C27: for a queued run with E >= 1, Setup is called with the run's r, u, N and E
\* once, on the first frame that finds the run at the front of the queue and
\* before an epoch is recorded for it: never for a run that has not been at the
\* front, once for every run that has.
SetupOncePerRun ==
    /\ \A k \in 1 .. Len(runs) :
          runs[k].E >= 1 =>
              runs[k].setups = (IF runs[k].seq <= fr.front THEN 1 ELSE 0)
    /\ (qlog.gone # <<>> /\ qlog.gone[1].E >= 1) => qlog.gone[1].setups = 1

\* C30: the row that progress updates write to, row id + 1, is the row appended for
\* the run when it was queued, and the runs in the queue have distinct ids.
RowsMatchIds ==
    /\ \A k \in 1 .. Len(runs) : runs[k].row = runs[k].id + 1
    /\ \A k, l \in 1 .. Len(runs) : runs[k].id = runs[l].id => k = l

\* C28: under Queue clicks, animation frames, Randomize and the parameter setters,
\* the values recorded for a run satisfy num_coop + num_defect = N of the run, with
\* 0 <= num_coop <= N: num_defect is computed without unsigned wrap-around.
RecordedCountsConserved ==
    fr.recorded # <<>> =>
        /\ fr.recorded[1].num_defect = fr.recorded[1].N - fr.recorded[1].num_coop
        /\ 0 <= fr.recorded[1].num_coop
        /\ fr.recorded[1].num_coop <= fr.recorded[1].N

\* C31: the progress update of a frame never reads or writes a RunInfo that has
\* been removed from the queue: once RemoveRun is called for the finished front
\* run, no later access of the step goes through the reference to that element.
NoAccessAfterRemoveRun == fr.stale = {}

\* ---------------------------------------------------------------- indices
\* C32: under Setup, Reset, SetN and Run, every agent index that Repro picks and
\* every index stored in a neighbor list is smaller than the length of the
\* population.
IndicesWithinPop ==
    /\ (last.done \/ pc = "undefined") => last.id < Size(pop)
    /\ \A i \in DOMAIN pop :
          \A k \in 1 .. Len(pop[i].neighbors) : pop[i].neighbors[k] < Size(pop)

\* ---------------------------------------------------------------- imitation
\* C33: with u >= 0, the neighbor whose strategy a Repro call copies has a fitness
\* above 0 at the time of the call, wherever it stands in the neighbor list.
ImitatedHasPositiveFitness ==
    [][(ReproCall /\ last'.winner # NoWinner) =>
          /\ ~IsNaN(pop[last'.winner].fitness)
          /\ pop[last'.winner].fitness > 0]_vars

\* a call that passed a neighbor of fitness 0 and copied a later one of the list,
\* of the strategy the agent had
ImitatedHasPositiveFitnessWitness ==
    /\ last.done
    /\ last.winner # NoWinner
    /\ pop[last.id].coop = last.start_coop
    /\ \E k, l \in 1 .. Len(pop[last.id].neighbors) :
          /\ k < l
          /\ pop[pop[last.id].neighbors[k]].fitness = 0
          /\ pop[last.id].neighbors[l] = last.winner

\* every agent has the same strategy
Homogeneous(p) == \A i, j \in DOMAIN p : p[i].coop = p[j].coop

\* C34: a homogeneous population is absorbing. From a state where every agent has
\* the same strategy, a step of Run (the call, a Repro call, the end of an epoch)
\* leaves every agent's strategy and CountCoop as they are; only Setup and Reset
\* change them.
HomogeneousIsAbsorbing ==
    [][(Homogeneous(pop) /\ (pc = "run" \/ op' = "Run")) =>
          /\ DOMAIN pop' = DOMAIN pop
          /\ \A i \in DOMAIN pop : pop'[i].coop = pop[i].coop
          /\ CountCoop(pop') = CountCoop(pop)
          /\ CountCoop(pop') \in {0, Size(pop)}]_vars

\* a Repro call copied a neighbor in a population of cooperators only
HomogeneousIsAbsorbingWitness ==
    /\ last.done
    /\ last.winner # NoWinner
    /\ N = MaxN
    /\ Homogeneous(pop)
    /\ CountCoop(pop) = N

\* ---------------------------------------------------------------- average
\* the agents whose fitness a Repro call on id reads: the neighbors, summed and
\* compared in the walk, and id itself where the draw is made
FitnessRead(p, id, drew) ==
    {p[id].neighbors[k] : k \in 1 .. Len(p[id].neighbors)}
        \cup (IF drew THEN {id} ELSE {})

\* C35: with use_average, the undefined fitness of an agent without neighbors
\* influences no strategy and no other fitness: every fitness that a Repro call
\* sums, compares or draws by is that of an agent with a neighbor and is a number,
\* and after the call only agents without neighbors have an undefined fitness.
UndefinedFitnessIsNeverUsed ==
    [][(ReproCall /\ use_ave) =>
          /\ \A n \in FitnessRead(pop, last'.id, last'.drew) :
                ~Isolated(n) /\ ~IsNaN(pop[n].fitness)
          /\ ~IsNaN(last'.total_fitness)
          /\ ~IsNaN(last'.choice)
          /\ \A i \in DOMAIN pop' : IsNaN(pop'[i].fitness) => Isolated(i)]_vars

\* under use_average, in a population with an agent without neighbors, a Repro
\* call drew by the fitness of its agent and the neighbors
UndefinedFitnessIsNeverUsedWitness ==
    /\ last.done
    /\ use_ave
    /\ last.drew
    /\ N = MaxN
    /\ \E i \in DOMAIN pop : Isolated(i) /\ IsNaN(pop[i].fitness)

====
